---------------------------- MODULE Spec2Model ----------------------------
(***************************************************************************)
(* A model of src/app.py (GoldPrime backend): the cache file, the clock,   *)
(* CacheManager.load / CacheManager.save, GoldService.get_master_price,    *)
(* the status endpoint, and MarketScraper.fetch_goodreturns.               *)
(*                                                                         *)
(* Python's None is the empty tuple <<>> and a present value x is <<x>>,   *)
(* so that "absent" and a number can be compared.                          *)
(***************************************************************************)
EXTENDS Integers, Sequences, FiniteSets, TLC

VARIABLES
    now,          \* the value time.time() returns
    file,         \* the content of CACHE_FILE on disk
    rpc,          \* position of the request thread inside get_master_price
    cached_price, \* get_master_price's local cached_price (line 211)
    interfered,   \* the file changed between the call's two reads
    threads,      \* number of background threads started (line 226)
    staleLogged,  \* number of "Cache stale." lines logged (line 224), capped
    spc,          \* position of a CacheManager.save call
    sdata,        \* save's local `data` (lines 105-109)
    ret,          \* what the most recent call returned to its caller
    fpc,          \* position of a fetch_goodreturns call
    srcIdx,       \* index in `sources` of the url the for loop is at
    fetched,      \* the urls requests.get was called on, in order
    validated,    \* the calls of _validate_price: <<source index, price, result>>
    served,       \* what each requests.get call met, in order
    outcome,      \* how each source's loop iteration ended, in order
    scraped       \* fetch_goodreturns' return value

vars == <<now, file, rpc, cached_price, interfered, threads, staleLogged, spc, sdata, ret,
          fpc, srcIdx, fetched, served, validated, outcome, scraped>>

serviceVars == <<now, file, rpc, cached_price, interfered, threads, staleLogged,
                 spc, sdata, ret>>
scrapeVars  == <<fpc, srcIdx, fetched, served, validated, outcome, scraped>>

---------------------------------------------------------------------------
(* Program constants                                                       *)

CACHE_EXPIRY_SECONDS == 3600
FAILSAFE_ANCHOR_PRICE == 1
MIN_VALID_PRICE == 140000
MAX_VALID_PRICE == 180000

None == <<>>
Some(x) == <<x>>

---------------------------------------------------------------------------
(* Bounds of the model                                                     *)

\* The clock is sampled at Epoch + a + b*(CACHE_EXPIRY_SECONDS - 1) with
\* a + b <= MaxTicks, so that record ages just below, at and just above the
\* expiry are all met.
MaxTicks == 3
\* Cap on the background-thread counter.
MaxThreads == 2

\* time.time() is seconds since 1970: far above CACHE_EXPIRY_SECONDS.
Epoch == 3 * CACHE_EXPIRY_SECONDS

Times == { Epoch + a + b * (CACHE_EXPIRY_SECONDS - 1) :
             <<a, b>> \in { ab \in (0..MaxTicks) \X (0..MaxTicks) : ab[1] + ab[2] <= MaxTicks } }

\* Prices a record on disk may hold (both inside the valid band).
StoredPrices == {165000, 170500}

\* Prices CacheManager.save is called with: save takes any price.
SavePrices == StoredPrices \cup {78000}

---------------------------------------------------------------------------
(* The cache file                                                          *)

\* os.path.exists(CACHE_FILE) is false.
FileAbsent == [state |-> "absent", price |-> None, timestamp |-> None]
\* The file exists and json.load raises on it (empty, truncated, not JSON).
FileGarbage == [state |-> "garbage", price |-> None, timestamp |-> None]
\* The file holds a JSON object; a key that is missing is None.
FileJson(p, t) == [state |-> "json", price |-> p, timestamp |-> t]

\* The contents the file may have when the server starts.
InitialFiles ==
    {FileAbsent, FileGarbage} \cup
    { FileJson(p, t) :
        p \in {None} \cup { Some(x) : x \in StoredPrices },
        t \in {None, Some(Epoch), Some(Epoch - CACHE_EXPIRY_SECONDS)} }

\* dict.get(key, default) on an optional field.
Get(field, default) == IF field = None THEN default ELSE field[1]

---------------------------------------------------------------------------
(* CacheManager.load                                                       *)

\* load with a missing timestamp read as the current time.
load_TimestampDefaultNow(f, t, ignore_expiry) ==
    IF f.state # "json" THEN None
    ELSE IF t - Get(f.timestamp, t) < CACHE_EXPIRY_SECONDS \/ ignore_expiry
         THEN f.price
         ELSE None

\* load with the expiry test written age <= CACHE_EXPIRY_SECONDS.
load_InclusiveExpiry(f, t, ignore_expiry) ==
    IF f.state # "json" THEN None
    ELSE IF t - Get(f.timestamp, 0) <= CACHE_EXPIRY_SECONDS \/ ignore_expiry
         THEN f.price
         ELSE None

\* The result of load(ignore_expiry) on file content f at clock t: the
\* returned optional price. Every exception is caught and gives None.
load(f, t, ignore_expiry) ==
    IF f.state = "absent" THEN None
    ELSE IF f.state = "garbage" THEN None
    ELSE LET age == t - Get(f.timestamp, 0)
         IN  IF age < CACHE_EXPIRY_SECONDS \/ ignore_expiry
             THEN f.price
             ELSE None

---------------------------------------------------------------------------
(* GoldService.get_master_price                                            *)

\* The attributes class MarketScraper defines.
MarketScraper == {"USER_AGENTS", "_get_headers", "fetch_goodreturns", "_validate_price"}

\* The age with a missing record counted from the current time.
StaleAge_FromNow(f, t) == t - (IF f.state = "json" THEN Get(f.timestamp, t) ELSE t)

\* The age computed at line 220 from the second read of the file.
StaleAge(f, t) == t - (IF f.state = "json" THEN Get(f.timestamp, 0) ELSE 0)

\* The staleness test written age >= CACHE_EXPIRY_SECONDS.
IsStale_Inclusive(f, t) == StaleAge(f, t) >= CACHE_EXPIRY_SECONDS

\* The staleness test of line 223.
IsStale(f, t) == StaleAge(f, t) > CACHE_EXPIRY_SECONDS

\* Lines 215-228, given cached_price from line 211: what the call gives its
\* caller (val, or the exception that propagates), how many threads it
\* started, and whether it took the stale branch (the log line of 224).
get_master_price(cached, f, t) ==
    IF f.state = "garbage"
    THEN \* json.load at line 218 is outside any try
         [val |-> None, exc |-> "JSONDecodeError", started |-> 0, stale |-> FALSE]
    ELSE IF IsStale(f, t)
    THEN IF "fetch_goodreturns_and_save" \in MarketScraper
         THEN [val |-> IF cached # None /\ cached[1] # 0
                       THEN cached ELSE Some(FAILSAFE_ANCHOR_PRICE),
               exc |-> "", started |-> 1, stale |-> TRUE]
         ELSE \* the attribute lookup at line 225 raises
              [val |-> None, exc |-> "AttributeError", started |-> 0, stale |-> TRUE]
    ELSE [val |-> IF cached # None /\ cached[1] # 0
                  THEN cached ELSE Some(FAILSAFE_ANCHOR_PRICE),
          exc |-> "", started |-> 0, stale |-> FALSE]

---------------------------------------------------------------------------
(* Text: a string is a tuple of one-character strings; "RUPEE" stands for  *)
(* the one character U+20B9, the rupee sign.                               *)

UpperChars == <<"A", "B", "C", "D", "E", "F", "G", "H", "I", "J", "K", "L", "M",
                "N", "O", "P", "Q", "R", "S", "T", "U", "V", "W", "X", "Y", "Z">>
LowerChars == <<"a", "b", "c", "d", "e", "f", "g", "h", "i", "j", "k", "l", "m",
                "n", "o", "p", "q", "r", "s", "t", "u", "v", "w", "x", "y", "z">>
DigitChars == <<"0", "1", "2", "3", "4", "5", "6", "7", "8", "9">>

\* str.lower()
LowerChar(c) ==
    IF \E i \in 1..Len(UpperChars) : UpperChars[i] = c
    THEN LowerChars[CHOOSE i \in 1..Len(UpperChars) : UpperChars[i] = c]
    ELSE c
Lower(s) == [i \in 1..Len(s) |-> LowerChar(s[i])]

\* `sub in s`
Contains(sub, s) ==
    \E i \in 0..(Len(s) - Len(sub)) : SubSeq(s, i + 1, i + Len(sub)) = sub

\* str.replace(ch, '')
Remove(s, ch) == SelectSeq(s, LAMBDA c : c # ch)

IsSpace(c) == c \in {" ", "\t", "\n", "\r"}
IsDigit(c) == \E i \in 1..Len(DigitChars) : DigitChars[i] = c
DigitVal(c) == (CHOOSE i \in 1..Len(DigitChars) : DigitChars[i] = c) - 1

SetMin(S) == CHOOSE x \in S : \A y \in S : x <= y
SetMax(S) == CHOOSE x \in S : \A y \in S : x >= y

\* str.strip()
Strip(s) ==
    LET keep == { i \in 1..Len(s) : ~IsSpace(s[i]) }
    IN  IF keep = {} THEN <<>> ELSE SubSeq(s, SetMin(keep), SetMax(keep))

RECURSIVE DigitsValue(_)
DigitsValue(s) ==
    IF s = <<>> THEN 0
    ELSE 10 * DigitsValue(SubSeq(s, 1, Len(s) - 1)) + DigitVal(s[Len(s)])

\* int(s): surrounding whitespace is dropped, one sign is allowed, the rest
\* must be one or more digits; anything else raises ValueError (ok = FALSE).
\* (The texts of the model hold no underscore and no non-ASCII digit.)
int(s) ==
    LET t0 == Strip(s)
        signed == t0 # <<>> /\ t0[1] \in {"+", "-"}
        body == IF signed THEN Tail(t0) ELSE t0
    IN  IF body # <<>> /\ \A i \in 1..Len(body) : IsDigit(body[i])
        THEN [ok |-> TRUE,
              value |-> IF signed /\ t0[1] = "-" THEN 0 - DigitsValue(body)
                        ELSE DigitsValue(body)]
        ELSE [ok |-> FALSE, value |-> 0]

\* A clean_str that keeps the decimal point.
CleanStr_KeepsPoint(cell) == Remove(Remove(Strip(cell), "RUPEE"), ",")

\* Lines 184-185: raw_str and clean_str of a price cell.
CleanStr(cell) == Remove(Remove(Remove(Strip(cell), "RUPEE"), ","), ".")

RECURSIVE Flatten(_)
\* The concatenation of a sequence of sequences.
Flatten(ss) == IF ss = <<>> THEN <<>> ELSE Head(ss) \o Flatten(Tail(ss))

---------------------------------------------------------------------------
(* Pages: a page is the sequence of its <table> elements; a table is its   *)
(* header cells (<th>) and its rows, a row being the texts of its <td>s.   *)

TxtHead24 == <<"2", "4", "K", " ", "G", "o", "l", "d", ",", " ", "1", "0", " ", "G", "r", "a", "m">>
TxtHead22 == <<"2", "2", "K", " ", "G", "o", "l", "d", ",", " ", "1", "0", " ", "G", "r", "a", "m">>
TxtGram == <<"G", "r", "a", "m">>
TxtPrice == <<"P", "r", "i", "c", "e">>
Txt1g == <<"1", " ", "g", "r", "a", "m">>
Txt10g == <<"1", "0", " ", "g", "r", "a", "m">>
Txt100g == <<"1", "0", "0", " ", "g", "r", "a", "m">>
Txt8g == <<"8", " ", "g", "r", "a", "m">>
TxtSmall == <<"1", "6", ",", "8", "4", "5">>
TxtValid == <<" ", "RUPEE", "1", ",", "6", "8", ",", "4", "5", "0", " ">>
TxtPlain == <<"1", ",", "6", "8", ",", "4", "5", "0">>
TxtDecimal == <<"RUPEE", "1", ",", "6", "8", ",", "4", "5", "0", ".", "0", "0">>
TxtPaper == <<"7", "8", "0", "0", "0">>
TxtSecond == <<"RUPEE", "1", ",", "7", "0", ",", "5", "0", "0">>
TxtNA == <<"N", "/", "A">>
TxtMin == <<"1", ",", "4", "0", ",", "0", "0", "0">>
TxtMinPlus1 == <<"1", ",", "4", "0", ",", "0", "0", "1">>
TxtMax == <<"1", ",", "8", "0", ",", "0", "0", "0">>
TxtMaxMinus1 == <<"1", ",", "7", "9", ",", "9", "9", "9">>
TxtBig == <<"1", "6", ",", "8", "4", ",", "5", "0", "0">>
Needle10gram == <<"1", "0", " ", "g", "r", "a", "m">>
Needle24 == <<"2", "4">>
Needle10 == <<"1", "0">>

Table(head, rows) == [head |-> head, rows |-> rows]

\* One qualifying table, a row that does not qualify, then a valid price.
PageValid == << Table(<<TxtHead24>>, << <<Txt1g, TxtSmall>>, <<Txt10g, TxtValid>> >>) >>
\* A paper-gold quote only.
PagePaper == << Table(<<TxtHead24>>, << <<Txt10g, TxtPaper>> >>) >>
\* A rejected row followed by a valid row of the same table.
PagePaperThenValid ==
    << Table(<<TxtHead24>>, << <<Txt10g, TxtPaper>>, <<Txt100g, TxtSecond>> >>) >>
\* A 22K table (skipped), a table with a rejected price, a table with a valid one.
PageTables ==
    << Table(<<TxtHead22>>, << <<Txt10g, TxtPlain>> >>),
       Table(<<TxtHead24>>, << <<Txt10g, TxtDecimal>> >>),
       Table(<<TxtGram, TxtPrice, Needle24>>, << <<Txt10g, TxtPlain>> >>) >>
\* No table at all.
PageEmpty == << >>
\* A qualifying table whose only data row has a single cell.
PageOneCell == << Table(<<TxtHead24>>, << <<Txt10g>>, <<Txt8g, TxtPlain>> >>) >>
\* A non-numeric price cell, followed by a valid row.
PageNonNumeric ==
    << Table(<<TxtHead24>>, << <<Txt10g, TxtNA>>, <<Txt10g, TxtPlain>> >>) >>
\* The band's ends: MIN and MAX, then MAX - 1.
PageBounds ==
    << Table(<<TxtHead24>>,
             << <<Txt10g, TxtMin>>, <<Txt10g, TxtMax>>, <<Txt10g, TxtMaxMinus1>> >>) >>
\* MIN + 1.
PageMinPlus1 == << Table(<<TxtHead24>>, << <<Txt10g, TxtMinPlus1>> >>) >>

Pages == {PageValid, PagePaper, PagePaperThenValid, PageTables, PageEmpty,
          PageOneCell, PageNonNumeric, PageBounds, PageMinPlus1}

---------------------------------------------------------------------------
(* MarketScraper                                                           *)

\* Line 161: the list of sources.
sources == <<"https://www.policybazaar.com/gold-rate/",
             "https://www.goodreturns.in/gold-rates/",
             "https://www.tanishq.co.in/gold-rate.html?lang=en_IN">>

\* The validator with inclusive ends.
_validate_price_Inclusive(price) == MIN_VALID_PRICE <= price /\ price <= MAX_VALID_PRICE

\* Lines 196-201.
_validate_price(price) == MIN_VALID_PRICE < price /\ price < MAX_VALID_PRICE

\* table.text: the texts of the table's cells, concatenated.
TableText(tb) == Flatten(tb.head) \o Flatten([i \in 1..Len(tb.rows) |-> Flatten(tb.rows[i])])

\* Lines 178-179.
TableQualifies(tb) ==
    LET table_text == Lower(TableText(tb))
    IN  Contains(Needle10gram, table_text) /\ Contains(Needle24, table_text)

\* Line 183.
RowQualifies(cols) == Len(cols) > 1 /\ Contains(Needle10, cols[1])

\* The price cells (cols[1] of Python, cols[2] here) lines 177-184 come to, in
\* the order of the nested loops.
Candidates(page) ==
    LET tables == SelectSeq(page, TableQualifies)
        cells(tb) == LET rows == SelectSeq(tb.rows, RowQualifies)
                     IN  [i \in 1..Len(rows) |-> rows[i][2]]
    IN  Flatten([i \in 1..Len(tables) |-> cells(tables[i])])

\* Lines 177-189 on the candidate cells of a page: the loops run until a cell fails
\* to parse (ValueError, caught at line 190) or a price passes validation
\* (return at line 189). checks are the prices _validate_price was called on.
ScanCells(cands) ==
    LET parsed(k) == int(CleanStr(cands[k]))
        stops == { k \in 1..Len(cands) :
                     ~parsed(k).ok \/ _validate_price(parsed(k).value) }
        stop == IF stops = {} THEN Len(cands) + 1 ELSE SetMin(stops)
        raised == stop <= Len(cands) /\ ~parsed(stop).ok
        nchecks == IF raised THEN stop - 1
                   ELSE IF stop <= Len(cands) THEN stop ELSE Len(cands)
        checks == [k \in 1..nchecks |->
                     [price |-> parsed(k).value, ok |-> _validate_price(parsed(k).value)]]
    IN  [checks |-> checks,
         status |-> IF raised THEN "error"
                    ELSE IF stop <= Len(cands) THEN "valid"
                    ELSE IF cands = <<>> THEN "miss" ELSE "rejected",
         price  |-> IF ~raised /\ stop <= Len(cands) THEN Some(parsed(stop).value) ELSE None]

\* A scan that takes the first candidate cell of the page only.
ScanPage_FirstOnly(page) ==
    ScanCells(SubSeq(Candidates(page), 1, IF Candidates(page) = <<>> THEN 0 ELSE 1))

\* Lines 175-189 on the page of a response of status 200.
ScanPage(page) == ScanCells(Candidates(page))

\* A loop that a cell that fails to parse ends.
AfterSource_ErrorAborts(status) == IF status \in {"valid", "error"} THEN "done" ELSE "loop"

\* A loop that goes on to the next source whatever the scan gave.
AfterSource_KeepGoing(status) == "loop"

\* Where the for loop of line 167 is after a source's iteration: a validated
\* price returns (line 189), anything else continues with the next url.
AfterSource(status) == IF status = "valid" THEN "done" ELSE "loop"

---------------------------------------------------------------------------
(* Return values                                                           *)

\* op: the call; ie: load's ignore_expiry; val: the value returned (None when
\* the call raised); exc: the exception that reached the caller; exists: the
\* status endpoint's cache_file_exists; started: threads the call started;
\* clean: the file did not change between the call's two reads (the first
\* read, load(ignore_expiry=True), does not depend on the clock).
NoRet == [op |-> "none", ie |-> FALSE, val |-> None, exc |-> "", exists |-> FALSE,
          started |-> 0, clean |-> TRUE]
Ret(op, ie, val, exc, exists) ==
    [op |-> op, ie |-> ie, val |-> val, exc |-> exc, exists |-> exists,
     started |-> 0, clean |-> TRUE]

NoData == [price |-> 0, timestamp |-> 0]

---------------------------------------------------------------------------
Init ==
    /\ now = Epoch
    /\ file \in InitialFiles
    /\ rpc = "idle"
    /\ cached_price = None
    /\ interfered = FALSE
    /\ threads = 0
    /\ staleLogged = 0
    /\ spc = "idle"
    /\ sdata = NoData
    /\ ret = NoRet
    /\ fpc = "idle"
    /\ srcIdx = 1
    /\ fetched = <<>>
    /\ served = <<>>
    /\ validated = <<>>
    /\ outcome = <<>>
    /\ scraped = None

\* The clock advances.
Tick ==
    /\ \E t \in Times : t > now /\ now' = t
    /\ ret' = NoRet
    /\ UNCHANGED <<file, rpc, cached_price, interfered, threads, staleLogged,
                   spc, sdata, scrapeVars>>

\* A direct call of CacheManager.load(ignore_expiry).
CallLoad ==
    /\ \E ie \in BOOLEAN :
         ret' = Ret("load", ie, load(file, now, ie), "", file.state # "absent")
    /\ UNCHANGED <<now, file, rpc, cached_price, interfered, threads, staleLogged,
                   spc, sdata, scrapeVars>>

\* GET /api/status (lines 344-352).
system_status ==
    /\ ret' = Ret("status", TRUE, load(file, now, TRUE), "", file.state # "absent")
    /\ UNCHANGED <<now, file, rpc, cached_price, interfered, threads, staleLogged,
                   spc, sdata, scrapeVars>>

\* A first read that honours the expiry.
ResolveLoad_HonoursExpiry ==
    /\ rpc = "idle"
    /\ rpc' = "loaded"
    /\ cached_price' = load(file, now, FALSE)
    /\ interfered' = FALSE
    /\ ret' = NoRet
    /\ UNCHANGED <<now, file, threads, staleLogged, spc, sdata, scrapeVars>>

\* get_master_price, line 211: the first read of the file.
ResolveLoad ==
    /\ rpc = "idle"
    /\ rpc' = "loaded"
    /\ cached_price' = load(file, now, TRUE)
    /\ interfered' = FALSE
    /\ ret' = NoRet
    /\ UNCHANGED <<now, file, threads, staleLogged, spc, sdata, scrapeVars>>

\* get_master_price, lines 215-228: the second read, the staleness test, the
\* dispatch and the return.
ResolveFinish ==
    /\ rpc = "loaded"
    /\ threads < MaxThreads
    /\ LET r == get_master_price(cached_price, file, now)
       IN  /\ ret' = [Ret("resolve", FALSE, r.val, r.exc, file.state # "absent")
                        EXCEPT !.started = r.started, !.clean = ~interfered]
           /\ threads' = threads + r.started
           /\ staleLogged' = IF r.stale /\ staleLogged < MaxThreads
                             THEN staleLogged + 1 ELSE staleLogged
    /\ rpc' = "idle"
    /\ cached_price' = None
    /\ interfered' = FALSE
    /\ UNCHANGED <<now, file, spc, sdata, scrapeVars>>

\* CacheManager.save(price), lines 105-110: data is built with the current
\* time and open(CACHE_FILE, 'w') truncates the file.
SaveOpen ==
    /\ spc = "idle"
    /\ \E p \in SavePrices : sdata' = [price |-> p, timestamp |-> now]
    /\ spc' = "open"
    /\ file' = FileGarbage
    /\ interfered' = (rpc = "loaded")
    /\ ret' = NoRet
    /\ UNCHANGED <<now, rpc, cached_price, threads, staleLogged, scrapeVars>>

\* CacheManager.save, lines 111-112: json.dump and the close write the record.
SaveDump ==
    /\ spc = "open"
    /\ file' = FileJson(Some(sdata.price), Some(sdata.timestamp))
    /\ spc' = "idle"
    /\ sdata' = NoData
    /\ interfered' = (rpc = "loaded")
    /\ ret' = Ret("save", FALSE, None, "", TRUE)
    /\ UNCHANGED <<now, rpc, cached_price, threads, staleLogged, scrapeVars>>

Next ==
    \/ Tick
    \/ CallLoad
    \/ system_status
    \/ ResolveLoad
    \/ ResolveFinish
    \/ SaveOpen
    \/ SaveDump

Spec == Init /\ [][Next]_vars

---------------------------------------------------------------------------
(* MarketScraper.fetch_goodreturns, called directly                        *)

\* What a requests.get call meets: an exception, a response whose status is
\* not 200, or a page of status 200.
Response(kind, page) == [kind |-> kind, page |-> page]

\* The call begins: the for loop of line 167 is at the first source.
FetchCall ==
    /\ fpc \in {"idle", "done"}
    /\ fpc' = "loop"
    /\ srcIdx' = 1
    /\ fetched' = <<>>
    /\ served' = <<>>
    /\ validated' = <<>>
    /\ outcome' = <<>>
    /\ scraped' = None
    /\ UNCHANGED serviceVars

\* Line 170: requests.get raises (timeout, connection error); lines 190-192.
FetchRaises ==
    /\ fpc = "loop" /\ srcIdx <= Len(sources)
    /\ fetched' = Append(fetched, sources[srcIdx])
    /\ served' = Append(served, Response("exception", <<>>))
    /\ outcome' = Append(outcome, "exception")
    /\ srcIdx' = srcIdx + 1
    /\ UNCHANGED <<fpc, validated, scraped, serviceVars>>

\* A response whose status is not 200 is asked for again.
FetchNon200_Retries ==
    /\ fpc = "loop" /\ srcIdx <= Len(sources)
    /\ fetched' = Append(fetched, sources[srcIdx])
    /\ served' = Append(served, Response("status", <<>>))
    /\ outcome' = Append(outcome, "status")
    /\ UNCHANGED <<srcIdx, fpc, validated, scraped, serviceVars>>

\* Lines 172-173: a response whose status is not 200.
FetchNon200 ==
    /\ fpc = "loop" /\ srcIdx <= Len(sources)
    /\ fetched' = Append(fetched, sources[srcIdx])
    /\ served' = Append(served, Response("status", <<>>))
    /\ outcome' = Append(outcome, "status")
    /\ srcIdx' = srcIdx + 1
    /\ UNCHANGED <<fpc, validated, scraped, serviceVars>>

\* Lines 175-192: a response of status 200 is parsed and scanned.
FetchPage ==
    /\ fpc = "loop" /\ srcIdx <= Len(sources)
    /\ \E page \in Pages :
         LET s == ScanPage(page)
         IN  /\ fetched' = Append(fetched, sources[srcIdx])
             /\ served' = Append(served, Response("page", page))
             /\ validated' = validated \o
                    [k \in 1..Len(s.checks) |->
                       [src |-> srcIdx, price |-> s.checks[k].price, ok |-> s.checks[k].ok]]
             /\ outcome' = Append(outcome, s.status)
             /\ IF AfterSource(s.status) = "done"
                THEN fpc' = "done" /\ scraped' = s.price /\ srcIdx' = srcIdx
                ELSE fpc' = fpc /\ scraped' = scraped /\ srcIdx' = srcIdx + 1
    /\ UNCHANGED serviceVars

\* An exhausted refresh that removes the cache file.
FetchExhausted_ClearsCache ==
    /\ fpc = "loop" /\ srcIdx > Len(sources)
    /\ fpc' = "done"
    /\ scraped' = None
    /\ file' = FileAbsent
    /\ UNCHANGED <<srcIdx, fetched, served, validated, outcome,
                   now, rpc, cached_price, interfered, threads, staleLogged,
                   spc, sdata, ret>>

\* Line 194: every source was tried.
FetchExhausted ==
    /\ fpc = "loop" /\ srcIdx > Len(sources)
    /\ fpc' = "done"
    /\ scraped' = None
    /\ UNCHANGED <<srcIdx, fetched, served, validated, outcome, serviceVars>>

NextScrape ==
    \/ FetchCall
    \/ FetchRaises
    \/ FetchNon200
    \/ FetchPage
    \/ FetchExhausted

ScrapeSpec == Init /\ [][NextScrape]_vars

---------------------------------------------------------------------------
(* Properties of get_master_price, load and the staleness test (Spec)      *)

\* The record on disk has both fields.
WellFormed == file.state = "json" /\ file.price # None /\ file.timestamp # None
\* now - capturedAt of a well-formed record.
RecordAge == now - file.timestamp[1]

\* C1: get_master_price returns an integer and never raises, whatever the
\* file holds (absent, fresh, stale, corrupt).
C1_ResolveTotal ==
    ret.op = "resolve" => ret.exc = "" /\ ret.val # None

\* C2: a call that finds a stale record of price p returns p at once and has
\* the refresh under way (one background thread started), so that later calls
\* can return the refreshed price.
C2_StaleServedAndRefreshed ==
    (ret.op = "resolve" /\ ret.clean /\ WellFormed /\ RecordAge > CACHE_EXPIRY_SECONDS)
        => (ret.exc = "" /\ ret.val = file.price /\ ret.started = 1)

\* C3: a call starts one background refresh if the store is stale (no record,
\* or a record older than the window) and none if it is fresh, in which case
\* it returns the stored price.
C3_DispatchIffStale ==
    (ret.op = "resolve" /\ ret.clean /\ (file.state = "absent" \/ WellFormed))
        => LET stale == file.state = "absent" \/ RecordAge > CACHE_EXPIRY_SECONDS
           IN  /\ ret.started = (IF stale THEN 1 ELSE 0)
               /\ (~stale => ret.exc = "" /\ ret.val = file.price)

\* C4: a call returns the stored price whenever the record holds one, whatever
\* its age, and the fail-safe anchor when there is no cached value.
C4_StoredElseAnchor ==
    (ret.op = "resolve" /\ ret.clean)
        => /\ ret.exc = ""
           /\ ret.val = (IF file.state = "json" /\ file.price # None
                         THEN file.price ELSE Some(FAILSAFE_ANCHOR_PRICE))

\* C5: on a well-formed record, load(False) returns the stored price when the
\* age is below the window and None when it is at or above it, while
\* load(True) still returns the stored price at such an age.
C5_LoadByAge ==
    (ret.op = "load" /\ WellFormed)
        => /\ (RecordAge < CACHE_EXPIRY_SECONDS /\ ~ret.ie => ret.val = file.price)
           /\ (RecordAge >= CACHE_EXPIRY_SECONDS /\ ~ret.ie => ret.val = None)
           /\ (RecordAge >= CACHE_EXPIRY_SECONDS /\ ret.ie => ret.val = file.price)

\* load(False) was called on a record whose age is exactly the window and
\* returned None.
C5_Witness ==
    /\ ret.op = "load" /\ ~ret.ie /\ WellFormed
    /\ RecordAge = CACHE_EXPIRY_SECONDS
    /\ ret.val = None

\* C6: the staleness test is true when no record exists, and a store that is
\* stale stays stale as time passes for as long as the file is not rewritten.
C6_StaleMonotonic ==
    [][ /\ (file.state = "absent" => IsStale(file, now))
        /\ (file.state \in {"absent", "json"} /\ IsStale(file, now) /\ file' = file
              => IsStale(file', now')) ]_vars

\* A record written at Epoch went stale, time moved on, and a call of
\* get_master_price still took the stale branch.
C6_Witness ==
    /\ ret.op = "resolve" /\ ret.exc = "AttributeError"
    /\ file.state = "json" /\ file.timestamp = Some(Epoch)
    /\ now > Epoch + CACHE_EXPIRY_SECONDS + 1

---------------------------------------------------------------------------
(* Properties of fetch_goodreturns (ScrapeSpec)                            *)

\* C7: the sources are fetched in list order, a source only after every
\* earlier one failed, missed or was rejected, and none after the first
\* source that gave a validated price.
C7_OrderedShortCircuit ==
    /\ Len(fetched) <= Len(sources)
    /\ fetched = SubSeq(sources, 1, Len(fetched))
    /\ Len(outcome) = Len(fetched)
    /\ \A i \in 1..Len(outcome) :
         /\ (outcome[i] = "valid" => i = Len(outcome) /\ fpc = "done")
         /\ (i < Len(outcome) =>
               outcome[i] \in {"exception", "status", "miss", "error", "rejected"})

\* The first source was rejected, the second gave a validated price, and the
\* call returned without fetching the third.
C7_Witness ==
    /\ fpc = "done" /\ scraped # None
    /\ outcome = <<"rejected", "valid">>
    /\ fetched = SubSeq(sources, 1, 2)

\* C8: a refresh that got a validated price has saved exactly that price,
\* with a new capture time, when it finishes.
C8_ValidatedPricePersisted ==
    (fpc = "done" /\ scraped # None)
        => (file.state = "json" /\ file.price = scraped /\ file.timestamp = Some(now))

\* C9: the validator accepts p exactly when MIN_VALID_PRICE < p < MAX_VALID_PRICE.
C9_ValidatorExclusive ==
    \A i \in 1..Len(validated) :
        validated[i].ok <=>
            (MIN_VALID_PRICE < validated[i].price /\ validated[i].price < MAX_VALID_PRICE)

\* One call validated MIN (rejected), MAX (rejected) and MAX - 1 (accepted).
C9_Witness ==
    /\ \E i \in 1..Len(validated) :
         validated[i].price = MIN_VALID_PRICE /\ ~validated[i].ok
    /\ \E i \in 1..Len(validated) :
         validated[i].price = MAX_VALID_PRICE /\ ~validated[i].ok
    /\ \E i \in 1..Len(validated) :
         validated[i].price = MAX_VALID_PRICE - 1 /\ validated[i].ok

\* The prices _validate_price was called on for source s, in order.
ChecksOf(s) == SelectSeq(validated, LAMBDA v : v.src = s)

\* C10 as stated: at most one candidate price is taken from a source; a
\* rejected price ends the source.
C10_OneCandidatePerSource ==
    \A s \in 1..Len(sources) : Len(ChecksOf(s)) <= 1

\* C10, amended: the candidate cells of a source are taken in document order;
\* after a rejected price the next candidate cell of the same source is
\* examined; an accepted price is the last one taken; the loop goes to the
\* next source only when every candidate of the source was rejected (or one
\* failed to parse). 78000 is rejected.
C10_RejectedThenNextRow ==
    \A s \in 1..Len(served) :
        served[s].kind = "page" =>
            LET cs == ChecksOf(s)
                cands == Candidates(served[s].page)
                parsed(k) == int(CleanStr(cands[k]))
            IN  /\ Len(cs) <= Len(cands)
                /\ \A k \in 1..Len(cs) :
                     /\ cs[k].price = parsed(k).value
                     /\ (cs[k].price = 78000 => ~cs[k].ok)
                     /\ (cs[k].ok => k = Len(cs) /\ outcome[s] = "valid")
                     /\ (~cs[k].ok /\ k < Len(cands)
                           => Len(cs) > k \/ ~parsed(k + 1).ok)
                /\ (outcome[s] = "rejected"
                      => /\ Len(cs) = Len(cands) /\ Len(cs) >= 1
                         /\ \A k \in 1..Len(cs) : ~cs[k].ok
                         /\ srcIdx > s)

\* A source whose first candidate, 78000, was rejected and whose second
\* candidate was then validated and accepted.
C10_Witness ==
    \E s \in 1..Len(served) :
        /\ Len(ChecksOf(s)) = 2
        /\ ChecksOf(s)[1].price = 78000 /\ ~ChecksOf(s)[1].ok
        /\ ChecksOf(s)[2].ok
        /\ scraped = Some(ChecksOf(s)[2].price)

\* What get_master_price gives on file content f at clock t when nothing
\* falls between its two reads.
ResolveOf(f, t) == get_master_price(load(f, t, TRUE), f, t)

Failures == {"exception", "status", "miss", "error", "rejected"}

DigitsOf(cell) == SelectSeq(cell, IsDigit)

\* C14: the price taken from a cell of currency text is the integer written
\* by its digits once the currency symbol, the commas and the decimal points
\* are removed: "1,68,450" gives 168450 and "RUPEE 1,68,450.00" gives 16845000.
C14_CurrencyNormalization ==
    \A s \in 1..Len(served) :
        served[s].kind = "page" =>
            LET cs == ChecksOf(s)
                cands == Candidates(served[s].page)
            IN  /\ \A k \in 1..Len(cs) :
                     /\ (\A i \in 1..Len(cands[k]) :
                            IsDigit(cands[k][i]) \/ IsSpace(cands[k][i])
                              \/ cands[k][i] \in {"RUPEE", ",", "."})
                          => cs[k].price = DigitsValue(DigitsOf(cands[k]))
                     /\ (cands[k] = TxtPlain => cs[k].price = 168450)
                     /\ (cands[k] = TxtDecimal => cs[k].price = 16845000)
                /\ (served[s].page = PageTables =>
                      Len(cs) = 2 /\ cs[1].price = 16845000 /\ cs[2].price = 168450)

\* A source served the page whose cells are "RUPEE 1,68,450.00" and
\* "1,68,450": the first gave 16845000 (rejected), the second 168450.
C14_Witness ==
    \E s \in 1..Len(served) :
        /\ served[s].page = PageTables
        /\ Candidates(served[s].page) = <<TxtDecimal, TxtPlain>>
        /\ ChecksOf(s) = << [src |-> s, price |-> 16845000, ok |-> FALSE],
                            [src |-> s, price |-> 168450, ok |-> TRUE] >>

\* C16: within one refresh no source is fetched twice, a failed fetch moves
\* on to the next source, and the refresh ends after at most Len(sources)
\* fetches: while it runs it is at the source after the last one fetched and
\* can always take a step.
C16_AtMostOneFetchEach ==
    /\ Len(fetched) <= Len(sources)
    /\ \A i, j \in 1..Len(fetched) : fetched[i] = fetched[j] => i = j
    /\ \A i \in 1..Len(outcome) :
         outcome[i] \in {"exception", "status"} /\ i < Len(sources)
           => (fpc = "loop" /\ srcIdx = i + 1) \/ Len(fetched) > i
    /\ (fpc = "loop" =>
          /\ srcIdx = Len(fetched) + 1
          /\ ENABLED (FetchRaises \/ FetchNon200 \/ FetchPage \/ FetchExhausted))

\* A refresh met a non-200 response, then a transport error, then a miss, and
\* ended after three fetches.
C16_Witness ==
    /\ fpc = "done"
    /\ outcome = <<"status", "exception", "miss">>
    /\ fetched = sources

\* C17: a source whose page has no qualifying table or row, or whose price
\* cell is not a number, is skipped: the refresh goes on with the next source.
C17_MissIsSkipped ==
    \A i \in 1..Len(outcome) :
        /\ (served[i].kind = "page" /\ Candidates(served[i].page) = <<>>
              => outcome[i] = "miss")
        /\ (served[i].kind = "page" /\ served[i].page = PageNonNumeric
              => outcome[i] = "error")
        /\ (outcome[i] \in {"miss", "error"} =>
              /\ srcIdx > i
              /\ (i < Len(sources) => (fpc = "loop" /\ srcIdx = i + 1) \/ Len(fetched) > i)
              /\ (i = Len(sources) /\ fpc = "done" => scraped = None))

\* A page with no table, then a page with a non-numeric cell, then a page
\* with a valid price, which the refresh returned.
C17_Witness ==
    /\ fpc = "done" /\ scraped # None
    /\ outcome = <<"miss", "error", "valid">>
    /\ served[1].page = PageEmpty /\ served[2].page = PageNonNumeric

---------------------------------------------------------------------------
(* Further properties of load, save and get_master_price (Spec)            *)

\* C12 as stated: load returns None, whatever ignore_expiry, on a file that
\* is unparseable or lacks the price or the timestamp.
C12_PartialIsAbsent ==
    (ret.op = "load" /\ file.state # "absent" /\ ~WellFormed) => ret.val = None

\* C12, amended: load returns None, whatever ignore_expiry, on a file that is
\* unparseable or lacks the price; a record that lacks only the timestamp is
\* read as infinitely old: load(False) returns None and load(True) returns
\* its price.
C12_PartialRecord ==
    ret.op = "load" =>
        /\ (file.state = "garbage" => ret.val = None)
        /\ (file.state = "json" /\ file.price = None => ret.val = None)
        /\ (file.state = "json" /\ file.price # None /\ file.timestamp = None
              => ret.val = (IF ret.ie THEN file.price ELSE None))

\* load(True) was called on a record without a timestamp and returned its price.
C12_Witness ==
    /\ ret.op = "load" /\ ret.ie
    /\ file.state = "json" /\ file.timestamp = None /\ file.price # None
    /\ ret.val = file.price

C15_TwoStaleTwoRefreshes ==
    staleLogged = 2 => threads = 2

\* The price a record offers, or the anchor when it offers none.
PriceOrAnchor(f) ==
    IF f.state = "json" /\ f.price # None THEN f.price ELSE Some(FAILSAFE_ANCHOR_PRICE)

\* C18 as stated: the price a call returns comes from the version of the
\* record its staleness test was made on, whatever falls between the reads.
C18_SameRecordVersion ==
    (ret.op = "resolve" /\ ret.exc = "") => ret.val = PriceOrAnchor(file)

\* C18, amended: the price comes from the first read and the staleness test
\* from the second; they are of the same version of the record when no step
\* of a save falls between the two reads.
C18_SameVersionWhenNoSaveBetween ==
    (ret.op = "resolve" /\ ret.exc = "" /\ ret.clean) => ret.val = PriceOrAnchor(file)

\* A call with no save between its reads returned the price of a record that
\* an earlier save had written.
C18_Witness ==
    /\ ret.op = "resolve" /\ ret.exc = "" /\ ret.clean
    /\ file = FileJson(Some(170500), Some(now))
    /\ ret.val = Some(170500)

\* C19: a call that ends while a save is under way returns a price that was
\* cached before the save or the saved price: not the anchor, not an error.
C19_NoPartialRecord ==
    (ret.op = "resolve" /\ spc = "open")
        => (ret.exc = "" /\ ret.val # None /\ ret.val # Some(FAILSAFE_ANCHOR_PRICE))

\* The call took the stale branch of line 223.
TookStaleBranch == ret.exc = "AttributeError" \/ ret.started = 1

\* C20 as stated: whenever a record is too old for load(False), the call
\* takes the stale branch.
C20_ExpiredImpliesStale ==
    (ret.op = "resolve" /\ ret.clean /\ WellFormed /\ load(file, now, FALSE) = None)
        => TookStaleBranch

\* C20, amended: load(False) finds the record expired from age
\* CACHE_EXPIRY_SECONDS on, the call takes the stale branch only above it: at
\* an age of exactly CACHE_EXPIRY_SECONDS the record is expired for load yet
\* the call finds it not stale and returns its price; at every other age the
\* two tests agree.
C20_TestsDifferAtWindow ==
    (ret.op = "resolve" /\ ret.clean /\ WellFormed) =>
        /\ (load(file, now, FALSE) = None <=> RecordAge >= CACHE_EXPIRY_SECONDS)
        /\ (TookStaleBranch <=> RecordAge > CACHE_EXPIRY_SECONDS)
        /\ (RecordAge = CACHE_EXPIRY_SECONDS =>
              ret.exc = "" /\ ret.val = file.price /\ ret.started = 0)

\* A call on a record aged exactly CACHE_EXPIRY_SECONDS returned its price.
C20_Witness ==
    /\ ret.op = "resolve" /\ ret.clean /\ WellFormed
    /\ RecordAge = CACHE_EXPIRY_SECONDS
    /\ ret.val = file.price /\ ret.exc = ""

===========================================================================
